---- MODULE Spec2Model ----
(***************************************************************************)
(* Model of ImportZone.execute (SoftLayer/CLI/modules/dns.py): the BIND    *)
(* zone-file importer of `sl dns import <file> [--dryRun]`.                *)
(*                                                                         *)
(* Text is modelled as sequences of one-character strings, so that the     *)
(* regular expressions of the importer are computed character by           *)
(* character, with Python's backtracking priorities.  The ANSI colour      *)
(* escapes that decorate the Action and Record cells are presentation      *)
(* only and are left out of the cell values.                               *)
(***************************************************************************)
EXTENDS Integers, Sequences, FiniteSets, TLC

(***************************************************************************)
(* Character classes of Python's re module (restricted to ASCII).          *)
(***************************************************************************)
LowerCase == <<"a","b","c","d","e","f","g","h","i","j","k","l","m",
               "n","o","p","q","r","s","t","u","v","w","x","y","z">>

UpperCase == <<"A","B","C","D","E","F","G","H","I","J","K","L","M",
               "N","O","P","Q","R","S","T","U","V","W","X","Y","Z">>

Range(f) == {f[x] : x \in DOMAIN f}

\* \d
Digit == {"0","1","2","3","4","5","6","7","8","9"}

\* \w
Word == Range(LowerCase) \cup Range(UpperCase) \cup Digit \cup {"_"}

\* [\w-]
WordDash == Word \cup {"-"}

\* \s
Space == {" ", "\t", "\n", "\r"}

\* the other characters that occur in zone files
Punct == {".", "@", "$", "!", ";", "(", ")", "-"}

\* `.' matches every character but the newline
Dot == (Word \cup Space \cup Punct) \ {"\n"}

\* the absent value of an optional group (Python's None); no text equals it
None == <<"<None>">>

(***************************************************************************)
(* str.strip() and str.upper()                                             *)
(***************************************************************************)
strip(s) ==
    LET keep == {x \in 1..Len(s) : s[x] \notin Space}
    IN  IF keep = {} THEN <<>>
        ELSE LET lo == CHOOSE x \in keep : \A y \in keep : x <= y
                 hi == CHOOSE x \in keep : \A y \in keep : y <= x
             IN  SubSeq(s, lo, hi)

upperChar(c) ==
    IF c \in Range(LowerCase)
    THEN UpperCase[CHOOSE x \in DOMAIN LowerCase : LowerCase[x] = c]
    ELSE c

upper(s) == [x \in 1..Len(s) |-> upperChar(s[x])]

(***************************************************************************)
(* Backtracking regular-expression matching.  A position p is the number   *)
(* of characters consumed, so the next character is s[p+1].                *)
(***************************************************************************)
NoMatch == [matched |-> FALSE, domain |-> None, ttl |-> None, class |-> None,
            type |-> None, record |-> None]

EmptyMatch == [matched |-> TRUE, domain |-> None, ttl |-> None, class |-> None,
               type |-> None, record |-> None]

\* the result of the first alternative, in priority order, that matches
FirstMatch(rs) ==
    LET tried == rs \o <<>>
        hits == {x \in DOMAIN tried : tried[x].matched}
    IN  IF hits = {} THEN NoMatch
        ELSE tried[CHOOSE x \in hits : \A y \in hits : x <= y]

\* length of the longest run of characters of cls that starts after p
Run(s, p, cls) ==
    CHOOSE n \in 0..(Len(s) - p) :
        /\ \A x \in 1..n : s[p + x] \in cls
        /\ (p + n = Len(s) \/ s[p + n + 1] \notin cls)

\* end positions of a greedy cls+ after p, longest first
GreedyEnds(s, p, cls) ==
    LET m == Run(s, p, cls) IN [x \in 1..m |-> p + m - x + 1]

\* (?P<record>.*) : the rest of the line; `.' does not match a newline
MatchRecord(s, p, caps) ==
    [caps EXCEPT !.record = SubSeq(s, p + 1, p + Run(s, p, Dot))]

\* (?P<type>\w+)\s+ followed by the record
MatchType(s, p, caps) ==
    LET te == GreedyEnds(s, p, Word)
        afterType(e) ==
            LET we == GreedyEnds(s, e, Space)
            IN  FirstMatch([y \in DOMAIN we |->
                    MatchRecord(s, we[y],
                                [caps EXCEPT !.type = SubSeq(s, p + 1, e)])])
    IN  FirstMatch([x \in DOMAIN te |-> afterType(te[x])])

\* the \s+ that separates the optional prefix group from the type
MatchSep(s, p, caps) ==
    LET we == GreedyEnds(s, p, Space)
    IN  FirstMatch([x \in DOMAIN we |-> MatchType(s, we[x], caps)])

\* (?P<class>\w+)? closing the prefix group
MatchClass(s, p, caps) ==
    LET ce == GreedyEnds(s, p, Word)
    IN  FirstMatch(
            [x \in DOMAIN ce |->
                MatchSep(s, ce[x], [caps EXCEPT !.class = SubSeq(s, p + 1, ce[x])])]
            \o <<MatchSep(s, p, caps)>>)

\* (?P<ttl>\d+)?\s+
MatchTtl(s, p, caps) ==
    LET afterTtl(e, c) ==
            LET we == GreedyEnds(s, e, Space)
            IN  FirstMatch([y \in DOMAIN we |-> MatchClass(s, we[y], c)])
        de == GreedyEnds(s, p, Digit)
    IN  FirstMatch(
            [x \in DOMAIN de |->
                afterTtl(de[x], [caps EXCEPT !.ttl = SubSeq(s, p + 1, de[x])])]
            \o <<afterTtl(p, caps)>>)

\* ([\w-]+(\.)?)* can end at e: labels of [\w-], each dot right after a label
IsDomainText(s, p, e) ==
    \A x \in (p + 1)..e :
        \/ s[x] \in WordDash
        \/ s[x] = "." /\ x > p + 1 /\ s[x - 1] \in WordDash

\* (?P<domain>([\w-]+(\.)?)*|\@)?\s+
MatchDomain(s, p, caps) ==
    LET afterDomain(e, c) ==
            LET we == GreedyEnds(s, e, Space)
            IN  FirstMatch([y \in DOMAIN we |-> MatchTtl(s, we[y], c)])
        \* the longest such text; its prefixes are such texts too
        m == CHOOSE k \in 0..(Len(s) - p) :
                 /\ IsDomainText(s, p, p + k)
                 /\ (p + k = Len(s) \/ ~IsDomainText(s, p, p + k + 1))
        \* first alternative, longest first, down to the empty text
        text == [x \in 1..(m + 1) |->
                    afterDomain(p + m - x + 1,
                        [caps EXCEPT !.domain = SubSeq(s, p + 1, p + m - x + 1)])]
        \* second alternative: the literal @
        at == IF p < Len(s) /\ s[p + 1] = "@"
              THEN <<afterDomain(p + 1, [caps EXCEPT !.domain = <<"@">>])>>
              ELSE <<>>
    IN  FirstMatch(text \o at \o <<afterDomain(p, caps)>>)

\* re.search(regex_r, content): anchored at the start by ^
regex_r(content) ==
    FirstMatch(<<MatchDomain(content, 0, EmptyMatch),
                 MatchSep(content, 0, EmptyMatch)>>)

\* re.search(r'(?P<weight>\d+)\s+(?P<record>.*)', domain_record): the
\* leftmost start that matches; None when there is none
record_search(domain_record) ==
    LET from(p) ==
            LET de == GreedyEnds(domain_record, p, Digit)
                afterWeight(e) ==
                    LET we == GreedyEnds(domain_record, e, Space)
                    IN  FirstMatch([y \in DOMAIN we |->
                            MatchRecord(domain_record, we[y], EmptyMatch)])
            IN  FirstMatch([x \in DOMAIN de |-> afterWeight(de[x])])
    IN  FirstMatch([x \in 1..(Len(domain_record) + 1) |-> from(x - 1)])

\* re.search(r'^\$ORIGIN (?P<zone>.*)\.', lines[0]): .* is greedy, so the
\* zone runs up to the last dot of the line
OriginPrefix == <<"$", "O", "R", "I", "G", "I", "N", " ">>

zone_search(line) ==
    LET n == Len(OriginPrefix)
        dots == {x \in (n + 1)..Len(line) :
                    /\ line[x] = "."
                    /\ \A y \in (n + 1)..(x - 1) : line[y] \in Dot}
    IN  IF Len(line) >= n /\ SubSeq(line, 1, n) = OriginPrefix /\ dots # {}
        THEN [matched |-> TRUE,
              zone |-> SubSeq(line, n + 1,
                              (CHOOSE x \in dots : \A y \in dots : y <= x) - 1)]
        ELSE [matched |-> FALSE, zone |-> None]

(***************************************************************************)
(* Zone files.  A file is the sequence of its raw lines, as iterating over *)
(* open(args['<file>']) yields them.                                       *)
(***************************************************************************)

\* a well-formed origin declaration
OriginOk == <<"$", "O", "R", "I", "G", "I", "N", " ", "a", ".", "b", ".", "\n">>

\* the zone name without its trailing dot
OriginNoTrailingDot == <<"$", "O", "R", "I", "G", "I", "N", " ", "a", ".", "b", "\n">>

\* the $ORIGIN prefix is missing
OriginNoPrefix == <<"O", "R", "I", "G", "I", "N", " ", "a", ".", "b", ".", "\n">>

\* no dot at all after the prefix
OriginNoDot == <<"$", "O", "R", "I", "G", "I", "N", " ", "a", "b", "\n">>

\* the tokens of the composed record lines
DomainTok == <<"w">>

TtlTok == <<"6", "0">>

ClassTok == <<"I", "N">>

TypeTok == <<"A">>

DataTok == <<"1", ".", "2">>

\* a weighted MX record
LineMX == <<"@", " ", "6", "0", " ", "I", "N", " ", "M", "X", " ", "1", "0", " ", "m", ".", "\n">>

\* an MX record without a weight
LineMXNoWeight == <<"@", " ", "6", "0", " ", "I", "N", " ", "M", "X", " ", "m", ".", "\n">>

\* SOA records, in upper and in mixed case
LineSOA == <<"@", " ", "6", "0", " ", "I", "N", " ", "S", "O", "A", " ", "n", ".", " ", "h", ".", "\n">>

LineSoa == <<"@", " ", "6", "0", " ", "I", "N", " ", "S", "o", "a", " ", "n", ".", " ", "h", ".", "\n">>

\* an indented line that is no record
LineGarbage == <<"\t", "!", "!", " ", "x", " ", "!", "!", "\n">>

\* a record without TTL whose fields are two spaces apart
LineWide == <<"w", " ", " ", "I", "N", " ", "A", " ", "1", ".", "2", "\n">>

\* cell texts
SOA == <<"S", "O", "A">>

MX == <<"M", "X">>

At == <<"@">>

ZoneText == <<"Z", "o", "n", "e">>

\* number of record lines of a file
MaxLines == 2

\* zone identifiers the remote lookup can return
MaxZoneId == 2

ZoneIds == 1..MaxZoneId

\* zone_id before it is assigned
NoId == -1

OriginLines == {OriginOk, OriginNoTrailingDot, OriginNoPrefix, OriginNoDot}

\* which of the optional fields a composed record line carries
FieldSubsets == SUBSET {"domain", "ttl", "class"}

\* type and data, with the fields of S in front, single spaces between
ComposedLine(S) ==
    (IF "domain" \in S THEN DomainTok \o <<" ">> ELSE <<>>)
    \o (IF "ttl" \in S THEN TtlTok \o <<" ">> ELSE <<>>)
    \o (IF "class" \in S THEN ClassTok \o <<" ">> ELSE <<>>)
    \o TypeTok \o <<" ">> \o DataTok \o <<"\n">>

RecordLines ==
    {ComposedLine(S) : S \in FieldSubsets}
    \cup {LineMX, LineMXNoWeight, LineSOA, LineSoa, LineGarbage, LineWide}

Files ==
    {<<>>} \cup
    {<<o>> \o rs : o \in OriginLines,
                   rs \in UNION {[1..k -> RecordLines] : k \in 0..MaxLines}}

(***************************************************************************)
(* State of one run of ImportZone.execute.                                 *)
(***************************************************************************)
VARIABLES
    file,       \* the raw lines of args['<file>']
    dry_run,    \* args.get('--dryRun')
    pc,         \* position of the run in execute
    lines,      \* the stripped lines
    zone,       \* the zone name of the origin line
    zone_id,    \* the identifier the records are created under
    action,     \* the local `action'
    table,      \* the rows added to the table, in order
    calls,      \* the calls made to the remote collaborators, in order
    n,          \* position in lines of the `content' of the loop
    domain_search,  \* the local `domain_search' of the loop body
    raised      \* the exception that left execute, if any

vars == <<file, dry_run, pc, lines, zone, zone_id, action, table, calls, n,
          domain_search, raised>>

\* table.add_row([Action, Host, TTL, Type, Record])
Row(a, host, ttl, type, record) ==
    [Action |-> a, Host |-> host, TTL |-> ttl, Type |-> type, Record |-> record]

\* one call to helpers.resolve_id, manager.create_zone or manager.create_record
Call(op, line, id, host, type, record, ttl, ok) ==
    [op |-> op, line |-> line, zone_id |-> id, host |-> host, type |-> type,
     record |-> record, ttl |-> ttl, ok |-> ok]

\* helpers.resolve_id(manager.resolve_ids, zone, name='zone')
resolve_id(name, id, ok) ==
    Call("resolve_id", 1, id, name, None, None, None, ok)

\* manager.create_zone(zone)
create_zone(name) ==
    Call("create_zone", 1, NoId, name, None, None, None, TRUE)

\* manager.create_record(zone_id, domain_name, domain_type, domain_record,
\* domain_ttl), made for the line at position line
create_record(line, id, host, type, record, ttl, ok) ==
    Call("create_record", line, id, host, type, record, ttl, ok)

Init ==
    /\ file \in Files
    /\ dry_run \in BOOLEAN
    /\ pc = "start"
    /\ lines = <<>>
    /\ zone = None
    /\ zone_id = NoId
    /\ action = ""
    /\ table = <<>>
    /\ calls = <<>>
    /\ n = 2
    /\ domain_search = NoMatch
    /\ raised = "none"

\* an exception leaves execute
Raise(e) ==
    /\ pc' = "raised"
    /\ raised' = e

\* the zone's own row
ZoneRow(a, name) == Row(a, name, <<>>, ZoneText, <<>>)

\* lines = [line.strip() ...]; zone_search = re.search(...); zone = group('zone')
ReadFile ==
    /\ pc = "start"
    /\ lines' = [x \in DOMAIN file |-> strip(file[x])]
    /\ IF file = <<>>
       THEN Raise("IndexError") /\ UNCHANGED zone
       ELSE IF ~zone_search(lines'[1]).matched
            THEN Raise("AttributeError") /\ UNCHANGED zone
            ELSE /\ zone' = zone_search(lines'[1]).zone
                 /\ pc' = "zone"
                 /\ UNCHANGED raised
    /\ UNCHANGED <<file, dry_run, domain_search, zone_id, action, table,
                   calls, n>>

\* if dry_run: no remote call, placeholder identifier
DryRunZone ==
    /\ pc = "zone"
    /\ dry_run
    /\ action' = "Dry Run"
    /\ zone_id' = 0
    /\ table' = Append(table, ZoneRow("Dry Run", zone))
    /\ pc' = "lines"
    /\ UNCHANGED <<file, dry_run, domain_search, lines, zone, calls, n,
                   raised>>

\* the first resolve_id returns an identifier
ResolveFound ==
    /\ pc = "zone"
    /\ ~dry_run
    /\ \E id \in ZoneIds :
        /\ calls' = Append(calls, resolve_id(zone, id, TRUE))
        /\ zone_id' = id
    /\ action' = "FOUND"
    /\ table' = Append(table, ZoneRow("FOUND", zone))
    /\ pc' = "lines"
    /\ UNCHANGED <<file, dry_run, domain_search, lines, zone, n, raised>>

\* variant: the except block resolves again without creating the zone
ResolveNotFoundNoCreate ==
    /\ pc = "zone"
    /\ ~dry_run
    /\ calls' = Append(calls, resolve_id(zone, NoId, FALSE))
    /\ action' = "CREATED"
    /\ pc' = "resolve_again"
    /\ UNCHANGED <<file, dry_run, domain_search, lines, zone, zone_id, table,
                   n, raised>>

\* the first resolve_id fails: except SoftLayerError, then create_zone
ResolveNotFound ==
    /\ pc = "zone"
    /\ ~dry_run
    /\ calls' = calls \o <<resolve_id(zone, NoId, FALSE), create_zone(zone)>>
    /\ action' = "CREATED"
    /\ pc' = "resolve_again"
    /\ UNCHANGED <<file, dry_run, domain_search, lines, zone, zone_id, table,
                   n, raised>>

\* variant: the result of the second resolve_id is not assigned to zone_id
ResolveAgainKeepsId ==
    /\ pc = "resolve_again"
    /\ \E id \in ZoneIds : calls' = Append(calls, resolve_id(zone, id, TRUE))
    /\ table' = Append(table, ZoneRow(action, zone))
    /\ pc' = "lines"
    /\ UNCHANGED <<file, dry_run, domain_search, lines, zone, zone_id, action,
                   n, raised>>

\* the second resolve_id, inside the except block
ResolveAgain ==
    /\ pc = "resolve_again"
    /\ \E id \in ZoneIds :
        /\ calls' = Append(calls, resolve_id(zone, id, TRUE))
        /\ zone_id' = id
    /\ table' = Append(table, ZoneRow(action, zone))
    /\ pc' = "lines"
    /\ UNCHANGED <<file, dry_run, domain_search, lines, zone, action, n,
                   raised>>

\* the second resolve_id fails too: nothing catches it
ResolveAgainFails ==
    /\ pc = "resolve_again"
    /\ calls' = Append(calls, resolve_id(zone, NoId, FALSE))
    /\ Raise("SoftLayerError")
    /\ UNCHANGED <<file, dry_run, domain_search, lines, zone, zone_id, action,
                   table, n>>

(***************************************************************************)
(* The loop `for content in lines[1:]'.                                    *)
(***************************************************************************)
content == lines[n]

\* for content in lines[1:]: domain_search = re.search(regex_r, content)
Search ==
    /\ pc = "lines"
    /\ n <= Len(lines)
    /\ domain_search' = regex_r(content)
    /\ pc' = "line"
    /\ UNCHANGED <<file, dry_run, lines, zone, zone_id, action, table, calls,
                   n, raised>>

\* the body of the loop runs with the search of the current line
InLoop == pc = "line"

\* if domain_name is None: domain_name = "@"
domain_name(search) == IF search.domain = None THEN At ELSE search.domain

\* variant: the SOA test without .upper()
IsSOACaseSensitive(domain_type) == domain_type = SOA

\* if domain_type.upper() == 'SOA'
IsSOA(domain_type) == upper(domain_type) = SOA

\* if domain_type.upper() == "MX"
IsMX(domain_type) == upper(domain_type) = MX

\* the weight of an MX record is chomped out
domain_record(search) ==
    IF IsMX(search.type) THEN record_search(search.record).record
    ELSE search.record

\* the line passes the SOA test and the MX normalisation
Normalized ==
    LET search == domain_search
    IN  /\ search.matched
        /\ ~IsSOA(search.type)
        /\ IsMX(search.type) => record_search(search.record).matched

\* the final table.add_row of the loop body
RecordRow(a, search) ==
    LET s == search
    IN  Row(a, domain_name(s), s.ttl, s.type, domain_record(s))

\* variant: domain_search.group('domain') is reached with domain_search None
LineUnknownRaises ==
    /\ InLoop
    /\ ~domain_search.matched
    /\ Raise("AttributeError")
    /\ UNCHANGED <<file, dry_run, domain_search, lines, zone, zone_id, action,
                   table, calls, n>>

\* if domain_search is None: add an Unknown row; continue
LineUnknown ==
    /\ InLoop
    /\ ~domain_search.matched
    /\ table' = Append(table, Row("Unknown", content, <<>>, <<>>, <<>>))
    /\ n' = n + 1
    /\ pc' = "lines"
    /\ UNCHANGED <<file, dry_run, domain_search, lines, zone, zone_id, action,
                   calls, raised>>

\* variant: the SOA record is skipped without a row
LineSkippedNoRow ==
    /\ InLoop
    /\ LET search == domain_search
       IN  search.matched /\ IsSOA(search.type)
    /\ n' = n + 1
    /\ pc' = "lines"
    /\ UNCHANGED <<file, dry_run, domain_search, lines, zone, zone_id, action,
                   table, calls, raised>>

\* This will skip the SOA record bit.
LineSkipped ==
    /\ InLoop
    /\ LET search == domain_search
       IN  search.matched /\ IsSOA(search.type)
    /\ table' = Append(table, Row("Skipped", content, <<>>, <<>>, <<>>))
    /\ n' = n + 1
    /\ pc' = "lines"
    /\ UNCHANGED <<file, dry_run, domain_search, lines, zone, zone_id, action,
                   calls, raised>>

\* record_search is None and record_search.group('record') raises
LineMXFails ==
    /\ InLoop
    /\ LET search == domain_search
       IN  /\ search.matched
           /\ ~IsSOA(search.type)
           /\ IsMX(search.type)
           /\ ~record_search(search.record).matched
    /\ Raise("AttributeError")
    /\ UNCHANGED <<file, dry_run, domain_search, lines, zone, zone_id, action,
                   table, calls, n>>

\* if dry_run: action = Parsed, and the row is added
LineParsed ==
    /\ InLoop
    /\ dry_run
    /\ Normalized
    /\ action' = "Parsed"
    /\ table' = Append(table, RecordRow("Parsed", domain_search))
    /\ n' = n + 1
    /\ pc' = "lines"
    /\ UNCHANGED <<file, dry_run, domain_search, lines, zone, zone_id, calls,
                   raised>>

\* the call of the try block for the current line, with its outcome
RecordCall(ok) ==
    LET search == domain_search
    IN  create_record(n, zone_id, domain_name(search), search.type,
                      domain_record(search), search.ttl, ok)

\* variant: create_record is called whether or not dry_run is set
LineCreatedInDryRun ==
    /\ InLoop
    /\ Normalized
    /\ calls' = Append(calls, RecordCall(TRUE))
    /\ action' = "Created"
    /\ table' = Append(table, RecordRow("Created", domain_search))
    /\ n' = n + 1
    /\ pc' = "lines"
    /\ UNCHANGED <<file, dry_run, domain_search, lines, zone, zone_id,
                   raised>>

\* else: action = Created; create_record returns, and the row is added
LineCreated ==
    /\ InLoop
    /\ ~dry_run
    /\ Normalized
    /\ calls' = Append(calls, RecordCall(TRUE))
    /\ action' = "Created"
    /\ table' = Append(table, RecordRow("Created", domain_search))
    /\ n' = n + 1
    /\ pc' = "lines"
    /\ UNCHANGED <<file, dry_run, domain_search, lines, zone, zone_id,
                   raised>>

\* what evaluating `exception.SoftLayerError' in the except clause can
\* raise: Python 3 unbinds the local `exception' at the end of the except
\* block of the zone resolution, Python 2 leaves it bound to that error,
\* which has no such attribute; when the block never ran (the zone row is
\* not CREATED) it is unbound
ExceptClauseErrors ==
    IF table[1].Action = "CREATED"
    THEN {"UnboundLocalError", "AttributeError"}
    ELSE {"UnboundLocalError"}

\* create_record raises; matching the error against the except clause
\* raises in turn, so the handler never runs and the error leaves execute
LineCreateFails ==
    /\ InLoop
    /\ ~dry_run
    /\ Normalized
    /\ calls' = Append(calls, RecordCall(FALSE))
    /\ action' = "Created"
    /\ \E e \in ExceptClauseErrors : Raise(e)
    /\ UNCHANGED <<file, dry_run, domain_search, lines, zone, zone_id, table,
                   n>>

\* return table
Return ==
    /\ pc = "lines"
    /\ n > Len(lines)
    /\ pc' = "done"
    /\ UNCHANGED <<file, dry_run, domain_search, lines, zone, zone_id, action,
                   table, calls, n, raised>>

Next ==
    \/ ReadFile
    \/ DryRunZone
    \/ ResolveFound
    \/ ResolveNotFound
    \/ ResolveAgain
    \/ ResolveAgainFails
    \/ Search
    \/ LineUnknown
    \/ LineSkipped
    \/ LineMXFails
    \/ LineParsed
    \/ LineCreated
    \/ LineCreateFails
    \/ Return

Spec == Init /\ [][Next]_vars

(***************************************************************************)
(* Properties.                                                             *)
(***************************************************************************)

\* the loop has gone past the line at position k
Processed(k) ==
    k \in 2..Len(lines) /\ k < n /\ pc \in {"lines", "line", "done", "raised"}

\* the run was left by an exception raised while handling the line at k
RaisedAt(k) == pc = "raised" /\ table # <<>> /\ n = k /\ k \in 2..Len(lines)

\* the create_record calls made for the line at position k
RecordCalls(k) ==
    {c \in DOMAIN calls : calls[c].op = "create_record" /\ calls[c].line = k}

\* the loop has reached the line at position k
Reached(k) ==
    k \in 2..Len(lines) /\ k <= n /\ pc \in {"lines", "line", "done", "raised"}

\* the row of the line at position k, when the table has one
HasRow(k, row) == k <= Len(table) /\ table[k] = row

\* C1: when create_record fails for a line, the run is not aborted and an
\* Exception row is recorded for that line.
C1_FailedRecordIsReported ==
    \A c \in DOMAIN calls :
        (calls[c].op = "create_record" /\ ~calls[c].ok) =>
            /\ pc # "raised"
            /\ calls[c].line <= Len(table)
            /\ table[calls[c].line].Action = "Exception"

\* C2: a dry run makes no call to resolve_id, create_zone or create_record;
\* its zone row is Dry Run with the placeholder identifier 0, and every line
\* that reaches the submission step yields a Parsed row instead of a call.
C2_DryRunMakesNoRemoteCall ==
    dry_run =>
        /\ calls = <<>>
        /\ table # <<>> => (table[1] = ZoneRow("Dry Run", zone) /\ zone_id = 0)
        /\ \A k \in 2..Len(table) :
              /\ table[k].Action \in {"Unknown", "Skipped", "Parsed"}
              /\ LET search == regex_r(lines[k])
                 IN  (search.matched /\ upper(search.type) # SOA)
                         => table[k].Action = "Parsed"

C2_Witness ==
    /\ dry_run
    /\ pc = "done"
    /\ Len(table) = 3
    /\ table[2].Action = "Parsed"
    /\ table[3].Action = "Parsed"

\* C3: a run that returns the table has added exactly one row per
\* non-origin line of the file, besides the zone row.
C3_OneRowPerLine ==
    pc = "done" => Len(table) - 1 = Len(file) - 1

C3_Witness ==
    /\ pc = "done"
    /\ Len(file) = 3
    /\ \E j, k \in 2..Len(table) :
          /\ table[j].Action \in {"Unknown", "Skipped"}
          /\ table[k].Action \in {"Created", "Parsed"}

\* C4: lookup-or-create.  A first resolve that succeeds gives a FOUND zone
\* row and no create_zone; a first resolve that fails is followed by exactly
\* one create_zone and a second resolve, giving CREATED; when the second
\* resolve fails the run aborts with no row and no create_record.
C4_LookupOrCreate ==
    (~dry_run /\ calls # <<>>) =>
        /\ calls[1].op = "resolve_id"
        /\ IF calls[1].ok
           THEN /\ table # <<>>
                /\ table[1].Action = "FOUND"
                /\ \A c \in DOMAIN calls : calls[c].op # "create_zone"
           ELSE /\ Len(calls) >= 2
                /\ {c \in DOMAIN calls : calls[c].op = "create_zone"} = {2}
                /\ Len(calls) = 2 => (pc = "resolve_again" /\ table = <<>>)
                /\ Len(calls) >= 3 =>
                      /\ calls[3].op = "resolve_id"
                      /\ IF calls[3].ok
                         THEN table # <<>> /\ table[1].Action = "CREATED"
                         ELSE /\ pc = "raised"
                              /\ table = <<>>
                              /\ Len(calls) = 3

C4_Witness ==
    /\ ~dry_run
    /\ pc = "done"
    /\ table[1].Action = "CREATED"
    /\ Len(calls) > 3

\* the origin declaration `$ORIGIN <name>.': the prefix, and a trailing dot
IsOriginDeclaration(line) ==
    /\ Len(line) > Len(OriginPrefix)
    /\ SubSeq(line, 1, Len(OriginPrefix)) = OriginPrefix
    /\ line[Len(line)] = "."

\* C5: when line 0 is not an origin declaration (prefix missing or trailing
\* dot missing), the run aborts before any remote call and before any row.
C5_BadOriginAborts ==
    (pc # "start" /\ file # <<>> /\ ~IsOriginDeclaration(lines[1])) =>
        /\ pc = "raised"
        /\ calls = <<>>
        /\ table = <<>>

\* the line is classified MX and its data does not match the weight pattern
IsMXWithoutWeight(line) ==
    LET search == regex_r(line)
    IN  /\ search.matched
        /\ upper(search.type) = MX
        /\ ~record_search(search.record).matched

\* C6: an MX line whose data does not match the weight pattern does not
\* abort the run: it gets an Exception row and the loop goes on.
C6_BadMXIsReported ==
    \A k \in 2..Len(lines) :
        IsMXWithoutWeight(lines[k]) =>
            /\ ~RaisedAt(k)
            /\ Processed(k) => /\ k <= Len(table)
                               /\ table[k].Action = "Exception"
                               /\ RecordCalls(k) = {}

\* C7: domain, TTL and class are each optional: a type token and record
\* data with any subset of them in front, single spaces between, is parsed
\* with that type and data, and with host @ when the domain is absent.
C7_OptionalFields ==
    \A k \in 2..Len(lines) : \A S \in FieldSubsets :
        (Processed(k) /\ lines[k] = strip(ComposedLine(S))) =>
            /\ k <= Len(table)
            /\ table[k].Action \in {"Parsed", "Created"}
            /\ table[k].Type = TypeTok
            /\ table[k].Record = DataTok
            /\ table[k].Host = IF "domain" \in S THEN DomainTok ELSE At

\* C8: a line the loop reaches whose type is SOA in any letter case gets a
\* Skipped row with the raw line text as host, and no create_record call.
C8_SOAIsSkipped ==
    \A k \in 2..Len(lines) :
        (/\ Reached(k)
         /\ LET search == regex_r(lines[k])
            IN  search.matched /\ upper(search.type) = SOA) =>
            /\ ~RaisedAt(k)
            /\ RecordCalls(k) = {}
            /\ Processed(k) =>
                  HasRow(k, Row("Skipped", strip(file[k]), <<>>, <<>>, <<>>))

C8_Witness ==
    /\ ~dry_run
    /\ pc = "done"
    /\ Len(lines) = 3
    /\ lines[2] = strip(LineSoa)
    /\ table[2].Action = "Skipped"
    /\ table[3].Action = "Created"

\* C9: a line the loop reaches that does not match the record pattern never
\* raises: it gets
\* exactly one row, Unknown with the stripped line text as host, causes no
\* create_record call, and the loop goes on to the next line.
C9_UnknownIsReported ==
    \A k \in 2..Len(lines) :
        (Reached(k) /\ ~regex_r(lines[k]).matched) =>
            /\ ~RaisedAt(k)
            /\ RecordCalls(k) = {}
            /\ Processed(k) =>
                  /\ HasRow(k, Row("Unknown", strip(file[k]), <<>>, <<>>, <<>>))
                  /\ Len(table) = n - 1

C9_Witness ==
    /\ pc = "done"
    /\ ~dry_run
    /\ Len(lines) = 3
    /\ lines[2] = strip(LineGarbage)
    /\ table[2].Action = "Unknown"
    /\ table[3].Action = "Created"

\* C10: every create_record call comes after the successful zone resolution
\* and the zone row, carries the identifier that resolution returned, and
\* the calls follow the order of the lines, at most one per line; every
\* Created record row has exactly one create_record call that returned.
C10_RecordCallsInOrder ==
    /\ \A c \in DOMAIN calls :
          calls[c].op = "create_record" =>
              /\ table # <<>>
              /\ table[1].Type = ZoneText
              /\ \E r \in 1..(c - 1) :
                    /\ calls[r].op = "resolve_id"
                    /\ calls[r].ok
                    /\ calls[r].zone_id = calls[c].zone_id
                    /\ \A q \in (r + 1)..(c - 1) : calls[q].op = "create_record"
              /\ calls[c].line \in 2..Len(lines)
              /\ \A b \in 1..(c - 1) :
                    calls[b].op = "create_record" => calls[b].line < calls[c].line
    /\ \A k \in 2..Len(table) :
          table[k].Action = "Created" =>
              /\ Cardinality(RecordCalls(k)) = 1
              /\ \A c \in RecordCalls(k) : calls[c].ok

C10_Witness ==
    /\ pc = "done"
    /\ table[1].Action = "CREATED"
    /\ Len(table) = 3
    /\ table[2].Action = "Created"
    /\ table[3].Action = "Created"
    /\ Len(calls) = 5
====
